---- MODULE Spec2Model ----
(***************************************************************************)
(* The simulation loop of src/src/components/Game.tsx: a React component   *)
(* holding five state cells (gameOver, player, obstacles, isJumping,       *)
(* score), a keydown listener and a requestAnimationFrame loop whose       *)
(* closure owns lastTimestamp and obstacleSpawnTimer.                      *)
(*                                                                         *)
(* Lengths are integers in units of 1/Unit pixel (GRAVITY is 0.5 px), so   *)
(* PX(360) is the y of a player standing on the ground.  Times are         *)
(* integer milliseconds.                                                   *)
(*                                                                         *)
(* deltaTime and timerAtEnd record the deltaTime and the obstacleSpawnTimer *)
(* of the latest call of gameLoop, as they were when it returned; now is   *)
(* the timestamp of that call.                                             *)
(*                                                                         *)
(* pendingFrames counts the animation frame callbacks that are requested   *)
(* and neither run nor cancelled, keyListeners the registered keydown      *)
(* listeners; mounted is false once the component is torn down.            *)
(* airFrames counts the calls of gameLoop since the latest accepted jump   *)
(* and clockSteps the frames delivered with a timestamp earlier than the   *)
(* previous one.                                                           *)
(*                                                                         *)
(* One action is one browser task: the handler followed by React's commit  *)
(* of the state updates it queued and the cleanup and re-run of the        *)
(* effects whose dependencies changed.  The handlers therefore always read *)
(* the state cells of the latest render.                                   *)
(***************************************************************************)
EXTENDS Integers, Sequences, FiniteSets

\* ------------------------------------------------------------------ units
Unit == 2
PX(n) == n * Unit

\* -------------------------------------------------------------- constants
\* variant: 1 px per frame
GRAVITY_Double == Unit

GRAVITY == Unit \div 2
JUMP_FORCE == -12 * Unit
GROUND_HEIGHT == PX(400)
OBSTACLE_SPEED == PX(5)
MIN_OBSTACLE_SPACING == 500
MAX_OBSTACLE_SPACING == 800
MIN_DISTANCE_BETWEEN_OBSTACLES == PX(400)
CanvasWidth == PX(800)

\* ----------------------------------------------------------------- bounds
\* Math.random() is k / RandomScale for a draw k.
RandomScale == 100
\* draws for the obstacle sizes and for the spawn threshold
WidthDraws == {0, 99}
HeightDraws == {0, 99}
ThresholdDraws == {0, 5}
\* Milliseconds between two animation frames.
FrameInterval == 16
\* The clock stops at MaxTime.
MaxTime == 3300
\* The clock may step back by one frame interval at ClockAnomalyAt, at most
\* MaxClockSteps times.
MaxClockSteps == 1
ClockAnomalyAt == 8 * FrameInterval
\* e.code of the keys pressed.
Keys == {"Space", "ArrowUp", "KeyA"}

VARIABLES gameOver, player, obstacles, isJumping, score,
          lastTimestamp, obstacleSpawnTimer, animationFrameId,
          deltaTime, timerAtEnd, now,
          pendingFrames, keyListeners, mounted, airFrames, clockSteps

vars == <<gameOver, player, obstacles, isJumping, score,
          lastTimestamp, obstacleSpawnTimer, animationFrameId,
          deltaTime, timerAtEnd, now,
          pendingFrames, keyListeners, mounted, airFrames, clockSteps>>

\* ------------------------------------------------------------ the program
InitialPlayer ==
    [x |-> PX(50), y |-> GROUND_HEIGHT - PX(40), width |-> PX(40),
     height |-> PX(40), velocityY |-> 0]

\* createObstacle, for the two draws of Math.random()
createObstacle(rw, rh) ==
    [x |-> CanvasWidth,
     width |-> PX(30) + (rw * PX(20)) \div RandomScale,
     height |-> PX(50) + (rh * PX(50)) \div RandomScale]

\* the threshold of the spawn decision, for a draw of Math.random()
SpawnThreshold(r) ==
    MIN_OBSTACLE_SPACING
      + (r * (MAX_OBSTACLE_SPACING - MIN_OBSTACLE_SPACING)) \div RandomScale

\* variant: no distance test
canSpawnObstacle_Always(obs) == TRUE

\* variant: measures the distance from the oldest obstacle
canSpawnObstacle_First(obs) ==
    IF Len(obs) = 0 THEN TRUE
    ELSE obs[1].x < CanvasWidth - MIN_DISTANCE_BETWEEN_OBSTACLES

canSpawnObstacle(obs) ==
    IF Len(obs) = 0 THEN TRUE
    ELSE obs[Len(obs)].x < CanvasWidth - MIN_DISTANCE_BETWEEN_OBSTACLES

\* variant: horizontal overlap only
checkCollision_NoVertical(p, o) ==
    /\ p.x < o.x + o.width
    /\ p.x + p.width > o.x

checkCollision(p, o) ==
    /\ p.x < o.x + o.width
    /\ p.x + p.width > o.x
    /\ p.y + p.height > GROUND_HEIGHT - o.height

\* the "Spawn new obstacles" block: the queued append, if any
SpawnObstacles(obs, closureObs, timer, r, rw, rh) ==
    IF timer > SpawnThreshold(r) /\ canSpawnObstacle(closureObs)
    THEN Append(obs, createObstacle(rw, rh))
    ELSE obs

\* the spawn timer the "Spawn new obstacles" block leaves behind
TimerAfterSpawn(closureObs, timer, r) ==
    IF timer > SpawnThreshold(r) /\ canSpawnObstacle(closureObs)
    THEN 0
    ELSE timer

MoveObstacle(o) == [o EXCEPT !.x = o.x - OBSTACLE_SPEED]

\* variant: keeps an obstacle whose right edge is exactly at 0
OnScreen_Inclusive(o) == o.x + o.width >= 0

OnScreen(o) == o.x + o.width > 0

\* the "Update obstacles" updater: map, then filter
UpdateObstacles(obs) ==
    SelectSeq([i \in 1..Len(obs) |-> MoveObstacle(obs[i])], OnScreen)

\* variant: strict ground test
HitsGround_Strict(p) == p.y + p.velocityY > GROUND_HEIGHT - p.height

\* the ground test of the "Update player position" updater
HitsGround(p) == p.y + p.velocityY >= GROUND_HEIGHT - p.height

\* variant: no ground collision
UpdatePlayer_NoGround(p) ==
    [p EXCEPT !.y = p.y + p.velocityY, !.velocityY = p.velocityY + GRAVITY]

\* the "Update player position" updater
UpdatePlayer(p) ==
    IF HitsGround(p)
    THEN [p EXCEPT !.y = GROUND_HEIGHT - p.height, !.velocityY = 0]
    ELSE [p EXCEPT !.y = p.y + p.velocityY, !.velocityY = p.velocityY + GRAVITY]

\* the "Check collisions" loop over the obstacles of the closure
CollisionDetected(p, obs) ==
    \E i \in 1..Len(obs) : checkCollision(p, obs[i])

\* variant: sign slip
IncrementScore_Subtract(s, dt) ==
    IF dt # 0 THEN s - (dt \div 100) ELSE s

\* the "Increment score" block
IncrementScore(s, dt) ==
    IF dt # 0 THEN s + (dt \div 100) ELSE s

\* variant: the effect does not look at gameOver
LoopRequestsFrame_Always(over) == TRUE

\* The game loop effect, run after a commit that changed one of its
\* dependencies: does it request an animation frame?
LoopRequestsFrame(over) == ~over

\* variant: the cleanup cancels nothing
CancelFrame_Leaks(pending, held) == pending

\* cancelAnimationFrame(animationFrameId) in the cleanup of the loop effect:
\* held tells whether the id is that of a pending callback
CancelFrame(pending, held) == IF held THEN pending - 1 ELSE pending

\* variant: the cleanup removes nothing
RemoveListener_Leaks(n) == n

\* removeEventListener in the cleanup of the keydown effect
RemoveListener(n) == n - 1

\* The cleanup of the previous loop effect and its re-run: the pending frame
\* is cancelled, the closure starts with fresh locals, a frame is requested
\* unless the session is over.
LoopEffect(over, pending, held) ==
    /\ lastTimestamp' = 0
    /\ obstacleSpawnTimer' = 0
    /\ animationFrameId' = LoopRequestsFrame(over)
    /\ pendingFrames' = CancelFrame(pending, held)
                          + (IF LoopRequestsFrame(over) THEN 1 ELSE 0)

\* The keydown effect: when isJumping or gameOver changed, the listener of
\* the previous render is removed and the new one added.
KeyEffect(changed) ==
    keyListeners' = IF changed THEN RemoveListener(keyListeners) + 1
                    ELSE keyListeners

Init ==
    /\ gameOver = FALSE
    /\ player = InitialPlayer
    /\ obstacles = <<>>
    /\ isJumping = FALSE
    /\ score = 0
    /\ lastTimestamp = 0
    /\ obstacleSpawnTimer = 0
    /\ animationFrameId = LoopRequestsFrame(FALSE)
    /\ deltaTime = 0
    /\ timerAtEnd = 0
    /\ now = 0
    /\ pendingFrames = (IF LoopRequestsFrame(FALSE) THEN 1 ELSE 0)
    /\ keyListeners = 1
    /\ mounted = TRUE
    /\ airFrames = 0
    /\ clockSteps = 0

\* variant: forgets setIsJumping(false)
resetGame_KeepsJumping ==
    /\ gameOver' = FALSE
    /\ player' = InitialPlayer
    /\ obstacles' = <<>>
    /\ score' = 0
    /\ isJumping' = isJumping

\* variant: forgets setScore(0)
resetGame_KeepsScore ==
    /\ gameOver' = FALSE
    /\ player' = InitialPlayer
    /\ obstacles' = <<>>
    /\ score' = score
    /\ isJumping' = FALSE

resetGame ==
    /\ gameOver' = FALSE
    /\ player' = InitialPlayer
    /\ obstacles' = <<>>
    /\ score' = 0
    /\ isJumping' = FALSE

\* variant: restarts on every jump key
IsRestartKey_AnyJumpKey(code) == code = "Space" \/ code = "ArrowUp"

\* variant: restarts on another key
IsRestartKey_Enter(code) == code = "Enter"

\* first branch of handleKeyDown
IsRestartKey(code) == code = "Space"

\* the key test of the second branch of handleKeyDown
IsJumpKey(code) == code = "Space" \/ code = "ArrowUp"

\* variant: does not test isJumping
JumpAccepted_NoAirborneTest(code, jumping, over) == IsJumpKey(code) /\ ~over

\* the second branch of handleKeyDown is taken
JumpAccepted(code, jumping, over) == IsJumpKey(code) /\ ~jumping /\ ~over

Restart(code) ==
    /\ gameOver /\ IsRestartKey(code)
    /\ resetGame
    /\ LoopEffect(FALSE, pendingFrames, animationFrameId)
    /\ KeyEffect(TRUE)
    /\ airFrames' = 0
    /\ UNCHANGED <<deltaTime, timerAtEnd, now, mounted, clockSteps>>

Jump(code) ==
    /\ ~(gameOver /\ IsRestartKey(code))
    /\ JumpAccepted(code, isJumping, gameOver)
    /\ player' = [player EXCEPT !.velocityY = JUMP_FORCE]
    /\ isJumping' = TRUE
    /\ LoopEffect(gameOver, pendingFrames, animationFrameId)
    /\ KeyEffect(TRUE)
    /\ airFrames' = 0
    /\ UNCHANGED <<gameOver, obstacles, score, deltaTime, timerAtEnd, now,
                   mounted, clockSteps>>

IgnoredKey(code) ==
    /\ ~(gameOver /\ IsRestartKey(code))
    /\ ~JumpAccepted(code, isJumping, gameOver)
    /\ UNCHANGED vars

handleKeyDown(code) == Restart(code) \/ Jump(code) \/ IgnoredKey(code)

\* One call of gameLoop(timestamp) with its draws of Math.random(), and the
\* commit that follows it.  The callback that runs is no longer pending; it
\* requests the next frame before the commit cancels that request.
gameLoop(timestamp, r, rw, rh) ==
    LET dt == timestamp - lastTimestamp
        timer == obstacleSpawnTimer + dt
    IN  /\ pendingFrames > 0
        /\ deltaTime' = dt
        /\ timerAtEnd' = TimerAfterSpawn(obstacles, timer, r)
        /\ now' = timestamp
        /\ obstacles' = UpdateObstacles(
                            SpawnObstacles(obstacles, obstacles, timer, r, rw, rh))
        /\ player' = UpdatePlayer(player)
        /\ isJumping' = IF HitsGround(player) THEN FALSE ELSE isJumping
        /\ gameOver' = (gameOver \/ CollisionDetected(player, obstacles))
        /\ score' = IncrementScore(score, dt)
        /\ LoopEffect(gameOver', (pendingFrames - 1) + 1, TRUE)
        /\ KeyEffect(isJumping' # isJumping \/ gameOver' # gameOver)
        /\ airFrames' = IF HitsGround(player) THEN 0 ELSE airFrames + 1
        /\ UNCHANGED mounted

KeyDown ==
    /\ keyListeners > 0
    /\ \E code \in Keys : handleKeyDown(code)

Frame ==
    /\ now + FrameInterval <= MaxTime
    /\ \E r \in ThresholdDraws, rw \in WidthDraws, rh \in HeightDraws :
          gameLoop(now + FrameInterval, r, rw, rh)
    /\ UNCHANGED clockSteps

Next == KeyDown \/ Frame

Spec == Init /\ [][Next]_vars

\* The component is torn down: the cleanups of both effects run.
Unmount ==
    /\ mounted
    /\ mounted' = FALSE
    /\ pendingFrames' = CancelFrame(pendingFrames, animationFrameId)
    /\ animationFrameId' = FALSE
    /\ keyListeners' = RemoveListener(keyListeners)
    /\ UNCHANGED <<gameOver, player, obstacles, isJumping, score,
                   lastTimestamp, obstacleSpawnTimer, deltaTime, timerAtEnd,
                   now, airFrames, clockSteps>>

LifecycleNext == KeyDown \/ Frame \/ Unmount

\* the component with its teardown
SpecLifecycle == Init /\ [][LifecycleNext]_vars

\* A frame whose timestamp is one frame interval earlier than that of the
\* previous frame (a clock anomaly).
FrameBack ==
    /\ clockSteps < MaxClockSteps
    /\ now = ClockAnomalyAt
    /\ clockSteps' = clockSteps + 1
    /\ \E r \in ThresholdDraws, rw \in WidthDraws, rh \in HeightDraws :
          gameLoop(now - FrameInterval, r, rw, rh)

ClockNext == KeyDown \/ Frame \/ FrameBack

\* the component under a clock that may step back
SpecClockAnomaly == Init /\ [][ClockNext]_vars

\* ------------------------------------------------------------- properties
\* a frame step: one call of gameLoop
FrameStep == Frame

\* a key press handled by handleKeyDown
KeyStep == KeyDown

\* C1: in every frame step of a running session, the session is over after
\* the step exactly if, for some obstacle o of the state the frame started
\* from, player.x < o.x + o.width, player.x + player.width > o.x and
\* player.y + player.height > GROUND_HEIGHT - o.height; and the session
\* becomes over in no step where that holds for no obstacle.
C1_Overlap(i) ==
    /\ player.x < obstacles[i].x + obstacles[i].width
    /\ player.x + player.width > obstacles[i].x
    /\ player.y + player.height > PX(400) - obstacles[i].height

C1_CollisionEndsSession ==
    [][ /\ (FrameStep /\ ~gameOver)
            => (gameOver' <=> \E i \in 1..Len(obstacles) : C1_Overlap(i))
        /\ (~gameOver /\ gameOver')
            => \E i \in 1..Len(obstacles) : C1_Overlap(i) ]_vars

\* a session ended by an obstacle that reached the player
C1_Witness ==
    /\ gameOver
    /\ \E i \in 1..Len(obstacles) : obstacles[i].x < PX(90)

\* C2: the session starts Running; it goes from Running to GameOver only in
\* a frame step that detects a collision, from GameOver to Running only by
\* Restart; and in every GameOver state Restart is enabled and leads to
\* Running.
C2_SessionStateMachine ==
    /\ ~gameOver
    /\ [][ /\ (~gameOver /\ gameOver')
               => (FrameStep /\ \E i \in 1..Len(obstacles) : C1_Overlap(i))
           /\ (gameOver /\ ~gameOver') => \E code \in Keys : Restart(code) ]_vars
    /\ [](gameOver => ENABLED (KeyStep /\ ~gameOver'))

\* a session that is over
C2_Witness == gameOver /\ score > 0

\* C3: a step that leaves GameOver yields exactly the initial state: score 0,
\* no obstacles, player at (50, 360) with velocityY 0 and not airborne,
\* spawn timer 0, gameOver false.
C3_RestartResetsExactly ==
    [][ (gameOver /\ KeyStep)
          => /\ score' = 0
             /\ obstacles' = <<>>
             /\ player' = [x |-> PX(50), y |-> PX(360), width |-> PX(40),
                           height |-> PX(40), velocityY |-> 0]
             /\ isJumping' = FALSE
             /\ obstacleSpawnTimer' = 0
             /\ gameOver' = FALSE ]_vars

\* the state right after a Restart: the clock is late and the score is 0
C3_Witness ==
    /\ ~gameOver /\ now > 1000 /\ score = 0 /\ obstacles = <<>>
    /\ player.y = PX(360) /\ player.velocityY = 0

\* C4 as stated: a key press changes velocityY only when the session is
\* Running and the player is not airborne, and then sets it to JUMP_FORCE and
\* marks the player airborne; a key press while airborne or while the session
\* is over leaves velocityY unchanged.
C4_Original ==
    [][ KeyStep =>
          IF ~gameOver /\ ~isJumping
          THEN \/ player'.velocityY = player.velocityY
               \/ player'.velocityY = -12 * Unit /\ isJumping'
          ELSE player'.velocityY = player.velocityY ]_vars

\* C4, amended: a key press changes velocityY only when the session is Running
\* and the player is not airborne (then it is JUMP_FORCE and the player is
\* marked airborne); a key press while airborne leaves velocityY unchanged;
\* a key press while the session is over never applies the jump impulse: it
\* leaves velocityY unchanged unless it is the Restart, which resets it to 0.
C4_SingleJump ==
    [][ KeyStep =>
          IF ~gameOver /\ ~isJumping
          THEN \/ player'.velocityY = player.velocityY
               \/ player'.velocityY = -12 * Unit /\ isJumping'
          ELSE IF ~gameOver
          THEN player'.velocityY = player.velocityY
          ELSE \/ player'.velocityY = player.velocityY
               \/ ~gameOver' /\ player'.velocityY = 0 ]_vars

\* a jump has just been accepted
C4_Witness ==
    ~gameOver /\ isJumping /\ player.velocityY = -12 * Unit /\ player.y = PX(360)

\* C5: in every reachable state player.y + player.height <= GROUND_HEIGHT.
C5_NeverBelowGround == player.y + player.height <= PX(400)

\* the last frame of a jump before it lands: 12 px above ground, falling
C5_Witness ==
    isJumping /\ player.y = PX(348) /\ player.velocityY = 12 * Unit

\* C6: a frame step takes y, velocityY to GROUND_HEIGHT - height, 0 and clears
\* the airborne flag if y + velocityY >= GROUND_HEIGHT - height, and to
\* y + velocityY, velocityY + GRAVITY otherwise, whatever the elapsed time;
\* it leaves x, width and height alone.
C6_PhysicsStep ==
    [][ FrameStep =>
          /\ IF player.y + player.velocityY >= PX(400) - player.height
             THEN /\ player'.y = PX(400) - player.height
                  /\ player'.velocityY = 0
                  /\ isJumping' = FALSE
             ELSE /\ player'.y = player.y + player.velocityY
                  /\ 2 * player'.velocityY = 2 * player.velocityY + Unit
                  /\ isJumping' = isJumping
          /\ player'.x = player.x
          /\ player'.width = player.width
          /\ player'.height = player.height ]_vars

\* the top of a jump, 150 px above the ground
C6_Witness == isJumping /\ player.y = PX(210) /\ player.velocityY = 0

\* C7: the score is a natural number; no step of a Running session decreases
\* it; no step that stays in GameOver changes it.
C7_ScoreMonotonic ==
    /\ [](score \in Nat)
    /\ [][ /\ ~gameOver => score' >= score
           /\ (gameOver /\ gameOver') => score' = score ]_vars

\* a session that ended with points on the board
C7_Witness == gameOver /\ score > 100

\* C8: while the session is over no frame is pending, and a step that stays
\* in GameOver changes neither the player, the obstacles, the score nor the
\* spawn timer.
C8_FrozenWhenOver ==
    /\ [](gameOver => ~animationFrameId)
    /\ [][ (gameOver /\ gameOver')
             => UNCHANGED <<player, obstacles, score, obstacleSpawnTimer,
                            isJumping>> ]_vars

\* a session that ended in mid-air with an obstacle on screen
C8_Witness ==
    gameOver /\ ~animationFrameId /\ Len(obstacles) > 0 /\ player.y < PX(360)

\* C9: an obstacle enters (at x = 800, seen after its first move) only when
\* the sequence was empty or its last obstacle was left of
\* 800 - MIN_DISTANCE_BETWEEN_OBSTACLES; and in every state each obstacle is
\* at least 400 px right of the one before it in the sequence.
C9_JustSpawned(obs) ==
    Len(obs) > 0 /\ obs[Len(obs)].x = PX(800) - PX(5)

C9_Spacing ==
    /\ [][ (FrameStep /\ C9_JustSpawned(obstacles'))
             => \/ Len(obstacles) = 0
                \/ obstacles[Len(obstacles)].x < PX(800) - PX(400) ]_vars
    /\ [](\A i \in 1..(Len(obstacles) - 1) :
             obstacles[i + 1].x - obstacles[i].x >= PX(400))

\* two obstacles on screen, the second just spawned
C9_Witness == Len(obstacles) >= 2 /\ C9_JustSpawned(obstacles)

\* C10: a frame step moves every obstacle left by OBSTACLE_SPEED and drops
\* exactly those with x + width <= 0 after the move, keeping the order of the
\* others (a newly spawned obstacle may follow them); every obstacle of every
\* state has x + width > 0.
C10_Moved(o) == [x |-> o.x - PX(5), width |-> o.width, height |-> o.height]

C10_Kept ==
    LET moved == [i \in 1..Len(obstacles) |-> C10_Moved(obstacles[i])]
        keep(o) == ~(o.x + o.width <= 0)
    IN  SelectSeq(moved, keep)

C10_Culling ==
    /\ [][ FrameStep =>
             \/ obstacles' = C10_Kept
             \/ /\ Len(obstacles') = Len(C10_Kept) + 1
                /\ SubSeq(obstacles', 1, Len(C10_Kept)) = C10_Kept
                /\ C9_JustSpawned(obstacles') ]_vars
    /\ [](\A i \in 1..Len(obstacles) : obstacles[i].x + obstacles[i].width > 0)

\* the first obstacle of the session has scrolled off and is gone: the clock
\* is past its exit and the oldest obstacle left is the one spawned second
C10_Witness ==
    /\ ~gameOver /\ now > 3150 /\ Len(obstacles) >= 1
    /\ obstacles[1].x > PX(300) /\ obstacles[1].x < PX(500)

\* C11 as stated: a frame step adds floor(d / 100) to the score, d being the
\* time elapsed since the previous frame, and nothing if d is not positive
\* (so frames 16 ms apart leave the score at 0).
C11_ScorePerFrame ==
    [][ FrameStep =>
          score' = score + (IF now' - now > 0 THEN (now' - now) \div 100 ELSE 0)
      ]_vars

\* C12 as stated: Space and ArrowUp (and no other key) jump while the session
\* is Running and the player is on the ground; Space and ArrowUp (and no
\* other key) restart while the session is over; every other key changes
\* nothing.
C12_Original ==
    \A code \in Keys :
        /\ (~gameOver /\ ~isJumping)
             => ((ENABLED Jump(code)) <=> code \in {"Space", "ArrowUp"})
        /\ gameOver
             => ((ENABLED Restart(code)) <=> code \in {"Space", "ArrowUp"})
        /\ code \notin {"Space", "ArrowUp"}
             => ~ENABLED (handleKeyDown(code) /\ vars' # vars)

\* C12, amended: Space and ArrowUp (and no other key) jump while the session
\* is Running and the player is on the ground; Space alone restarts while the
\* session is over; ArrowUp while the session is over, and every other key in
\* both states, changes nothing.
C12_RestartKey ==
    \A code \in Keys :
        /\ (~gameOver /\ ~isJumping)
             => ((ENABLED Jump(code)) <=> code \in {"Space", "ArrowUp"})
        /\ gameOver
             => /\ (ENABLED Restart(code)) <=> code = "Space"
                /\ code # "Space" => ~ENABLED (handleKeyDown(code) /\ vars' # vars)
        /\ code \notin {"Space", "ArrowUp"}
             => ~ENABLED (handleKeyDown(code) /\ vars' # vars)

\* a session that is over, where a key press is a Restart or nothing
C12_Witness == gameOver /\ isJumping /\ Len(obstacles) > 0

\* C13 as stated: a frame step of a loop closure that has no prior timestamp
\* computes deltaTime = 0: it adds nothing to the score and nothing to the
\* spawn timer.
C13_FirstFrameDelta ==
    [][ (FrameStep /\ lastTimestamp = 0)
          => /\ deltaTime' = 0
             /\ score' = score
             /\ timerAtEnd' = obstacleSpawnTimer ]_vars

\* C14 as stated: the spawn timer a frame step leaves behind (0 after a
\* spawn, the accumulated time otherwise) is the spawn timer the next frame
\* of the running session starts from.
C14_TimerCarriesOver ==
    [][ (FrameStep /\ ~gameOver') => obstacleSpawnTimer' = timerAtEnd' ]_vars

\* C17: in every reachable state isJumping is false exactly if the player is
\* at rest on the ground (y = 360 and velocityY = 0); so in a running session
\* a jump key is accepted if the player rests on the ground and refused if it
\* does not.
C17_AtRest == player.y = PX(360) /\ player.velocityY = 0

C17_AirborneFlag ==
    /\ ~isJumping <=> C17_AtRest
    /\ ~gameOver => ((ENABLED Jump("Space")) <=> C17_AtRest)
    /\ ~gameOver => ((ENABLED Jump("ArrowUp")) <=> C17_AtRest)

\* a running session with the player well above the ground
C17_Witness == ~gameOver /\ isJumping /\ player.y < PX(300)

\* C19: in every reachable state 210 <= player.y <= 360 and
\* -12 <= velocityY <= 12.
C19_JumpBounded ==
    /\ PX(210) <= player.y /\ player.y <= PX(360)
    /\ -12 * Unit <= player.velocityY /\ player.velocityY <= 12 * Unit

\* the fastest fall: the last airborne frame of a jump
C19_Witness == player.velocityY = 12 * Unit /\ player.y < PX(360)

\* C20: in every reachable state the sequence holds at most 3 obstacles and
\* every obstacle in it has -width < x <= 800.
C20_ObstaclesBounded ==
    /\ Len(obstacles) <= 3
    /\ \A i \in 1..Len(obstacles) :
          /\ -obstacles[i].width < obstacles[i].x
          /\ obstacles[i].x <= PX(800)

\* three obstacles on screen at once
C20_Witness == Len(obstacles) = 3

\* C15: at most one frame callback is pending at any time and it is the one
\* the current loop closure requested; at most one keydown listener is
\* registered; after the teardown no frame callback is pending and no
\* keydown listener is registered.
C15_SingleFrameLoop ==
    /\ pendingFrames <= 1
    /\ pendingFrames > 0 => animationFrameId
    /\ keyListeners <= 1
    /\ ~mounted => (pendingFrames = 0 /\ keyListeners = 0)

\* the component torn down in the middle of a jump
C15_Witness == ~mounted /\ isJumping /\ ~gameOver /\ now > 0

\* C16 as stated: a frame whose timestamp is earlier than that of the
\* previous frame does not change the score and does not decrease the spawn
\* timer.
C16_NegativeDeltaIgnored ==
    [][ ((Frame \/ FrameBack) /\ now' < now)
          => /\ score' = score
             /\ timerAtEnd' >= obstacleSpawnTimer ]_vars

\* C18: an airborne player lands (y = 360, velocityY = 0, airborne flag
\* cleared) in the 49th frame step after the accepted jump and in no earlier
\* one, and a grounded player of a running session can jump again.
C18_JumpLands ==
    /\ [](isJumping => airFrames \in 0..48)
    /\ []((~gameOver /\ ~isJumping) => ENABLED Jump("Space"))
    /\ [][ (KeyStep /\ ~isJumping /\ isJumping') => airFrames' = 0 ]_vars
    /\ [][ (FrameStep /\ isJumping) =>
             IF airFrames = 48
             THEN /\ ~isJumping'
                  /\ player'.y = PX(360)
                  /\ player'.velocityY = 0
             ELSE /\ isJumping'
                  /\ airFrames' = airFrames + 1
                  /\ player'.y < PX(360) ]_vars

\* 48 frames into a jump: the next frame lands it
C18_Witness == ~gameOver /\ isJumping /\ airFrames = 48

====
